---- MODULE Spec2Model ----
(***************************************************************************)
(* Chunked volumetric processing of brainquant3d: chunk planning           *)
(* (utils/chunking.py), per-chunk tasks (stack_processing/                 *)
(* parallelization.py) and scheduling plus merging of the per-chunk        *)
(* detections (stack_processing/cell_detection.py).                        *)
(*                                                                         *)
(* Ranges are pairs <<start, stop>> (start included, stop excluded), a     *)
(* chunk descriptor is a triple of ranges in z, y, x order, as in the      *)
(* source.  An error raised by the code is a record with a non-empty err   *)
(* field naming the Python exception.                                      *)
(***************************************************************************)
EXTENDS Integers, Sequences, FiniteSets, TLC

\* ---------------------------------------------------------------- bounds
MaxAxis    == 7      \* largest axis length of the enumerated volumes
MaxOverlap == 2      \* largest overlap margin
MaxMinSize == 2      \* largest min_sizes entry

\* aspect ratios and voxel budgets (size * 1.28e8 / itemsize, line 111 of
\* chunking.py, taken at whole-voxel values) the planner is run with
AspectRatios == { <<1, 1, 1>>, <<1, 2, 2>>, <<2, 1, 1>> }
Budgets      == { 8, 27, 64, 100, 130, 216, 220, 300, 400 }

Axes == 1..3

\* ---------------------------------------------------------------- helpers
Max(a, b) == IF a >= b THEN a ELSE b
Min(a, b) == IF a <= b THEN a ELSE b

Prod3(s) == s[1] * s[2] * s[3]

Cube(k) == k * k * k

\* math.ceil(a / b) for positive integers
CeilDiv(a, b) == (a + b - 1) \div b

\* [v] * n
Repeat(v, n) == [i \in 1..n |-> v]

RECURSIVE SumSeq(_)
SumSeq(s) == IF Len(s) = 0 THEN 0 ELSE Head(s) + SumSeq(Tail(s))

\* ------------------------------------------------------ utils/chunking.py

\* ranges_from_sizes: running offsets, [offset, offset + r] per size
ranges_from_sizes(sizes) ==
    [i \in 1..Len(sizes) |->
        << SumSeq(SubSeq(sizes, 1, i - 1)), SumSeq(SubSeq(sizes, 1, i - 1)) + sizes[i] >>]

\* a variant that widens without clamping at the volume boundary
add_overlap_unclamped(ranges, ovl, shape) ==
    [i \in 1..Len(ranges) |->
        [ax \in 1..Len(ranges[i]) |->
            << ranges[i][ax][1] - ovl, ranges[i][ax][2] + ovl >>]]

\* add_overlap: every range widened by overlap, clamped to [0, shape[ax]]
add_overlap(ranges, ovl, shape) ==
    [i \in 1..Len(ranges) |->
        [ax \in 1..Len(ranges[i]) |->
            << Max(ranges[i][ax][1] - ovl, 0), Min(ranges[i][ax][2] + ovl, shape[ax]) >>]]

\* a variant that leaves the unique range in the coordinates of the volume
unique_slice_global(img_rng, unique_rng) ==
    [ax \in 1..Len(unique_rng) |-> << unique_rng[ax][1], unique_rng[ax][2] >>]

\* unique_slice: the unique range in coordinates local to the substack
unique_slice(img_rng, unique_rng) ==
    [ax \in 1..Len(unique_rng) |->
        << unique_rng[ax][1] - img_rng[ax][1],
           (unique_rng[ax][1] - img_rng[ax][1]) + (unique_rng[ax][2] - unique_rng[ax][1]) >>]

\* Largest k with k^3 * P <= B * r^3: the exact floor of (B/P)^(1/3) * r.
ExactFloor(B, P, r) ==
    CHOOSE k \in 0..(B * r) : Cube(k) * P <= B * Cube(r) /\ Cube(k + 1) * P > B * Cube(r)

\* (x) ** (1/3) in IEEE double arithmetic falls just below the exact root c
\* when c is one of these values (2c given; 1/3 is rounded down to a double):
\* 64 ** (1/3) = 3.9999999999999996, but 27 ** (1/3) = 3.0.
PowRoundsDown(twoC) == twoC \in {7, 8} \/ twoC >= 10

\* math.floor(c * aspect_ratio[a]) with c = (chunk_size / prod(aspect_ratio)) ** (1/3)
FloorScaled(B, P, r) ==
    LET k == ExactFloor(B, P, r)
    IN  IF Cube(k) * P = B * Cube(r) /\ PowRoundsDown((2 * k) \div r)
        THEN k - 1
        ELSE k

\* max_size of one axis (line 121)
MaxUnique(size, aspect_ratio, ovl, a) ==
    FloorScaled(size, Prod3(aspect_ratio), aspect_ratio[a]) - 2 * ovl

\* a variant that accepts every overlap
OverlapTooLarge_Never(ovl, min_sizes) == FALSE

\* a variant that rejects only an overlap of at least a min_sizes entry
OverlapTooLarge_Inclusive(ovl, min_sizes) == \E a \in Axes : ovl >= min_sizes[a]

\* line 108: any([overlap > s for s in min_sizes])
OverlapTooLarge(ovl, min_sizes) == \E a \in Axes : ovl > min_sizes[a]

\* line 123: min_sizes[a] > max_size
MinTooLarge(min_size, max_size) == min_size > max_size

\* a variant that accepts pieces of any size
PieceTooSmall_Never(chunk_size, min_size) == FALSE

\* line 131: chunk_size < min_sizes[a]
PieceTooSmall(chunk_size, min_size) == chunk_size < min_size

\* a variant that puts the remainder into the first piece
AxisSizes_RemainderFirst(axis, max_size, min_size) ==
    IF MinTooLarge(min_size, max_size)
    THEN [err |-> "ValueError", sizes |-> << >>]
    ELSE IF max_size = 0
    THEN [err |-> "ZeroDivisionError", sizes |-> << >>]
    ELSE IF axis % max_size # 0
    THEN LET n_chunks   == CeilDiv(axis, max_size)
             chunk_size == axis \div n_chunks
             firsts     == Repeat(chunk_size, n_chunks - 1)
         IN  IF PieceTooSmall(chunk_size, min_size)
             THEN [err |-> "ValueError", sizes |-> << >>]
             ELSE [err |-> "", sizes |-> << axis - SumSeq(firsts) >> \o firsts]
    ELSE [err |-> "TypeError", sizes |-> << >>]

\* Lines 121-138 for one axis: the chunk sizes along the axis, or the error
\* the loop body raises.
AxisSizes(axis, max_size, min_size) ==
    IF MinTooLarge(min_size, max_size)
    THEN [err |-> "ValueError", sizes |-> << >>]
    ELSE IF max_size = 0
    THEN [err |-> "ZeroDivisionError", sizes |-> << >>]
    ELSE IF axis % max_size # 0
    THEN LET n_chunks   == CeilDiv(axis, max_size)
             chunk_size == axis \div n_chunks
             firsts     == Repeat(chunk_size, n_chunks - 1)
         IN  IF PieceTooSmall(chunk_size, min_size)
             THEN [err |-> "ValueError", sizes |-> << >>]
             ELSE [err |-> "", sizes |-> Append(firsts, axis - SumSeq(firsts))]
    \* [max_size] * (axis / max_size): a list times a float
    ELSE [err |-> "TypeError", sizes |-> << >>]

\* itertools.product of the three per-axis range lists, z slowest, x fastest
Product3(idx) ==
    LET ny == Len(idx[2])
        nx == Len(idx[3])
    IN  [i \in 1..(Len(idx[1]) * ny * nx) |->
            << idx[1][((i - 1) \div (ny * nx)) + 1],
               idx[2][(((i - 1) \div nx) % ny) + 1],
               idx[3][((i - 1) % nx) + 1] >>]

\* chunk_ranges(source, overlap, min_sizes, aspect_ratio, size) for a 3-D
\* source of the given shape; size is the budget in voxels (chunk_size).
\* Returns the two values the caller unpacks, or the raised error.
chunk_ranges(shape, ovl, min_sizes, aspect_ratio, size) ==
    IF OverlapTooLarge(ovl, min_sizes)
    THEN [err |-> "ValueError", unique |-> << >>, overlap |-> << >>]
    ELSE IF size < Prod3(shape)
    THEN LET ax(a)  == AxisSizes(shape[a], MaxUnique(size, aspect_ratio, ovl, a), min_sizes[a])
             failed == {a \in Axes : ax(a).err # ""}
         IN  IF failed # {}
             THEN LET first == CHOOSE a \in failed : \A b \in failed : a <= b
                  IN  [err |-> ax(first).err, unique |-> << >>, overlap |-> << >>]
             ELSE LET indices       == [a \in Axes |-> ranges_from_sizes(ax(a).sizes)]
                      unique_chunks == Product3(indices)
                  IN  [err     |-> "",
                       unique  |-> unique_chunks,
                       overlap |-> add_overlap(unique_chunks, ovl, shape)]
    \* [[[0, ax] for ax in source.shape]] * 2: both unpacked values are the
    \* list of the three [0, ax] pairs
    ELSE [err     |-> "",
          unique  |-> [a \in Axes |-> <<0, shape[a]>>],
          overlap |-> [a \in Axes |-> <<0, shape[a]>>]]

\* ------------------------------------------- analysis/label_properties.py

\* label_props: one column per requested property, one entry per region.
\* regions is the list of measured regions, each [c |-> centroid in the
\* coordinates of the measured image, v |-> value of a scalar property].
label_props(regions, props) ==
    [j \in 1..Len(props) |->
        [n \in 1..Len(regions) |->
            IF props[j] = "centroid" THEN regions[n].c ELSE regions[n].v]]

\* ------------------------------------------ stack_processing/cell_detection.py

\* coords >= min_coord and coords < max_coord on every axis (lines 171-172)
InUnique(coord, unique_range) ==
    \A a \in Axes : coord[a] >= unique_range[a][1] /\ coord[a] < unique_range[a][2]

\* coords + tuple(rng[0] for rng in overlap_ranges[i]) (line 168)
ToGlobal(coord, overlap_range) == [a \in Axes |-> coord[a] + overlap_range[a][1]]

\* One pass of the loop of lines 160-181 for chunk i.  acc is the running
\* filtered_data: none = TRUE while it is still None, rows = its rows
\* (coordinates followed by the property values), err = the exception raised.
JoinChunk(acc, i, all_coords, all_props, unique_ranges, overlap_ranges) ==
    IF acc.err # "" THEN acc
    ELSE IF i > Len(all_coords)
    THEN [acc EXCEPT !.err = "IndexError"]              \* all_coords[i]
    ELSE LET coords == all_coords[i]
             props  == all_props[i]                     \* transposed row-wise below
         IN  IF Len(coords) = 0 THEN acc
             \* np.concatenate((coords, props), axis=1) needs a 2-d props:
             \* np.array([]).T has one dimension
             ELSE IF Len(props) = 0
             THEN [acc EXCEPT !.err = "ValueError"]
             ELSE LET data == [n \in 1..Len(coords) |->
                                  ToGlobal(coords[n], overlap_ranges[i])
                                      \o [j \in 1..Len(props) |-> props[j][n]]]
                      keep(row) == InUnique(row, unique_ranges[i])
                  IN  [err   |-> "",
                       none  |-> FALSE,
                       ncols |-> 3 + Len(props),
                       rows  |-> acc.rows \o SelectSeq(data, keep)]

RECURSIVE JoinLoop(_, _, _, _, _, _, _)
JoinLoop(acc, i, nchunks, all_coords, all_props, unique_ranges, overlap_ranges) ==
    IF i > nchunks THEN acc
    ELSE JoinLoop(JoinChunk(acc, i, all_coords, all_props, unique_ranges, overlap_ranges),
                  i + 1, nchunks, all_coords, all_props, unique_ranges, overlap_ranges)

NonEmptyResult(r) == Len(r) > 0

\* join_points(results, unique_ranges, overlap_ranges).  value is the list
\* of columns filtered_data.T.tolist(); np.zeros((0, 3)), an array without
\* rows, is the empty list of rows with zero = TRUE.
join_points(results, unique_ranges, overlap_ranges) ==
    LET nonempty   == SelectSeq(results, NonEmptyResult)
        all_coords == [j \in 1..Len(nonempty) |-> nonempty[j][1]]
        all_props  == [j \in 1..Len(nonempty) |-> Tail(nonempty[j])]
        acc        == JoinLoop([err |-> "", none |-> TRUE, ncols |-> 0, rows |-> << >>],
                               1, Len(results), all_coords, all_props,
                               unique_ranges, overlap_ranges)
    IN  IF acc.err # ""
        THEN [err |-> acc.err, zero |-> FALSE, value |-> << >>]
        ELSE IF acc.none
        THEN [err |-> "", zero |-> TRUE, value |-> << >>]
        ELSE [err   |-> "",
              zero  |-> FALSE,
              value |-> [c \in 1..acc.ncols |-> [n \in 1..Len(acc.rows) |-> acc.rows[n][c]]]]

\* One pass of the loop of lines 193-201: key k consumes the rows from
\* index i (0-based, as in the source); an index past the end of values
\* raises IndexError.
JsonifyKey(acc, k, values) ==
    IF acc.err # "" THEN acc
    ELSE IF k = "centroid"
    THEN IF acc.i + 1 > Len(values)
         THEN [acc EXCEPT !.err = "IndexError"]
         ELSE IF acc.i + 3 > Len(values)
         THEN [acc EXCEPT !.err = "IndexError"]
         ELSE [err |-> "",
               i   |-> acc.i + 3,
               res |-> acc.res \o << <<"z", values[acc.i + 1]>>,
                                     <<"y", values[acc.i + 2]>>,
                                     <<"x", values[acc.i + 3]>> >>]
    ELSE IF acc.i + 1 > Len(values)
         THEN [acc EXCEPT !.err = "IndexError"]
         ELSE [err |-> "",
               i   |-> acc.i + 1,
               res |-> Append(acc.res, <<k, values[acc.i + 1]>>)]

RECURSIVE JsonifyLoop(_, _, _)
JsonifyLoop(acc, keys, values) ==
    IF Len(keys) = 0 THEN acc
    ELSE JsonifyLoop(JsonifyKey(acc, Head(keys), values), Tail(keys), values)

\* jsonify_points(keys, values): res lists the (column name, column) items
\* of the returned dict in insertion order
jsonify_points(keys, values) ==
    LET acc == JsonifyLoop([err |-> "", i |-> 0, res |-> << >>], keys, values)
    IN  IF acc.err # "" THEN [err |-> acc.err, res |-> << >>]
        ELSE IF acc.i # Len(values) THEN [err |-> "ValueError", res |-> << >>]
        ELSE [err |-> "", res |-> acc.res]

\* lines 100-101: 'centroid' is put first in a non-empty property list
WithCentroid(props) ==
    IF Len(props) > 0 /\ props[1] # "centroid" THEN <<"centroid">> \o props ELSE props

\* ------------------------------------------------------------ file system
\* Paths below the run's temporary root: chunk = 0 for the root itself and
\* the entries directly in it, chunk = i for the subdirectory of the task
\* of chunk i and the entries in that subdirectory.
\* a variant in which every task is given the subdirectory of the first
ChunkDir_Shared(i) == [chunk |-> 1, name |-> "run<uuid>"]

\* uuid.uuid4() gives a new value at every call: the names made from it
\* differ from task to task and are told apart by the chunk
RootDir       == [chunk |-> 0, name |-> "bq3d<uuid>"]
SourceFile    == [chunk |-> 0, name |-> "<uuid>.tif"]
ChunkDir(i)   == [chunk |-> i, name |-> "run<uuid>"]
ChunkFile(i, n) == [chunk |-> i, name |-> n]

\* path lies in the tree rooted at dir
Under(path, dir) == dir = RootDir \/ (dir.chunk = path.chunk /\ dir.chunk # 0)

\* shutil.rmtree(dir, ignore_errors=True): the tree is gone afterwards and
\* nothing is raised, whether or not dir existed
rmtree(files, dir) == { f \in files : ~Under(f, dir) }

\* ------------------------------------------------------------------ state
VARIABLES
    source_shape,       \* shape (Z, Y, X) of the source volume
    overlap,            \* overlap argument
    min_sizes,          \* min_sizes argument
    aspect_ratio,       \* aspect_ratio argument
    size,               \* memory budget, in voxels
    output_properties,  \* output_properties argument (a list, changed in place)
    processes,          \* processes argument
    flow,               \* flow argument: the operator steps
    objects,            \* global coordinates of the objects the operators label
    pc,                 \* position of process_flow
    fs,                 \* the paths that exist below the temporary root
    plan,               \* what chunk_ranges returned or raised
    task,               \* task[i]: the processSubStack call for argdata[i]
    pool,               \* the worker pool: "none", "open" or "closed"
    first_err,          \* the first exception a pool task handed back
    results,            \* results[i]: what processSubStack returned for chunk i
    joined,             \* what join_points returned or raised
    table,              \* what jsonify_points returned or raised
    error,              \* the exception process_flow raised to its caller
    starts,             \* starts[i]: how often the task of chunk i was started
    runs,               \* runs[b]: what a whole run with budget b returned or raised
    mosaic,             \* the slice files an operator's output is saved to
    completed,          \* the chunks whose task returned, in the order of return
    sink,               \* sink argument, and whether the table was written to it
    filter_manager,     \* the FilterManager: its _filters, and the last call made on it
    im_filters          \* the operator instances made so far, in order

inputVars == << source_shape, overlap, min_sizes, aspect_ratio, size >>

filterVars == << filter_manager, im_filters >>

runVars == << processes, flow, objects, pc, fs, task, pool, first_err, table, error, starts, runs,
             mosaic, completed, sink, filterVars >>

vars == << source_shape, overlap, min_sizes, aspect_ratio, size, output_properties,
           processes, flow, objects, pc, fs, plan, task, pool, first_err, results,
           joined, table, error, starts, runs, mosaic, completed, sink,
           filter_manager, im_filters >>

\* "none": the call has not been made
NoPlan    == [err |-> "none", unique |-> << >>, overlap |-> << >>]
NotJoined == [err |-> "none", zero |-> FALSE, value |-> << >>]
NoTable   == [err |-> "none", res |-> << >>]
NoError   == [kind |-> "", site |-> "", chunk |-> 0]

\* no slice file exists: files = the slice indices z whose file exists,
\* allocs = the io.empty calls made (lost: the file held written data),
\* data = what the files hold, one record per written voxel g (src: the
\* source voxel the value was computed at, by: the writing chunk), log = every
\* write of a voxel ever made
NoMosaic  == [files |-> {}, allocs |-> {}, data |-> {}, log |-> {}]

\* sink = None: path = "" ; written: io.writePoints wrote the table to path
NoSink    == [path |-> "", written |-> FALSE]

\* no operator class is registered (FilterManager.__init__) and no
\* operator instance exists
NoCall == [op |-> "", arg |-> "", raised |-> ""]

NoFilters ==
    /\ filter_manager = [filters |-> {}, call |-> NoCall]
    /\ im_filters = << >>

\* process_flow is not running: the pure functions are applied on their own
NoRun ==
    /\ processes = 1
    /\ flow = << >>
    /\ objects = {}
    /\ pc = "off"
    /\ fs = {}
    /\ task = << >>
    /\ pool = "none"
    /\ first_err = NoError
    /\ table = NoTable
    /\ error = NoError
    /\ starts = << >>
    /\ runs = << >>
    /\ mosaic = NoMosaic
    /\ completed = << >>
    /\ sink = NoSink
    /\ NoFilters

\* the voxel indices of a volume
Voxels(shape) == { <<z, y, x>> : z \in 0..(shape[1] - 1), y \in 0..(shape[2] - 1),
                                 x \in 0..(shape[3] - 1) }

\* coord lies in the range triple rng
InRange(coord, rng) == \A a \in Axes : coord[a] >= rng[a][1] /\ coord[a] < rng[a][2]

\* ------------------------------------------------- planner specification
\* a volume with an axis of 100 voxels whose maximum unique size is 30 at
\* an overlap of 5: floor(65000 ** (1/3)) - 2 * 5 = 40 - 10; the same
\* volume planned with an overlap of 15 at min_sizes of 10
PlanExamples ==
    { [shape |-> <<100, 31, 31>>, overlap |-> 5, min_sizes |-> <<10, 10, 10>>,
       aspect_ratio |-> <<1, 1, 1>>, size |-> 65000],
      [shape |-> <<100, 31, 31>>, overlap |-> 15, min_sizes |-> <<10, 10, 10>>,
       aspect_ratio |-> <<1, 1, 1>>, size |-> 65000] }

InitPlan ==
    /\ \/ /\ source_shape \in [Axes -> 1..MaxAxis]
          /\ overlap      \in 0..MaxOverlap
          /\ min_sizes    \in [Axes -> 1..MaxMinSize]
          /\ aspect_ratio \in AspectRatios
          /\ size         \in Budgets
       \/ \E cfg \in PlanExamples :
             /\ source_shape = cfg.shape
             /\ overlap = cfg.overlap
             /\ min_sizes = cfg.min_sizes
             /\ aspect_ratio = cfg.aspect_ratio
             /\ size = cfg.size
    /\ output_properties = << >>
    /\ plan = NoPlan
    /\ results = << >>
    /\ joined = NotJoined
    /\ NoRun

\* the call chunk_ranges(source, overlap, min_sizes, aspect_ratio, size)
ChunkRanges ==
    /\ plan = NoPlan
    /\ plan' = chunk_ranges(source_shape, overlap, min_sizes, aspect_ratio, size)
    /\ UNCHANGED << inputVars, output_properties, runVars, results, joined >>

NextPlan == ChunkRanges

SpecPlan == InitPlan /\ [][NextPlan]_vars

\* the grid is the partitioned one (lines 116-145), not the whole-volume return
Partitioned == plan.err = "" /\ size < Prod3(source_shape)

\* --------------------------------------------------- merge specification
\* join_points applied to the results of the chunks of a planned grid.

\* planner arguments that give grids of several chunks with overlap margins
JoinConfigs ==
    { [shape |-> <<7, 7, 7>>, overlap |-> 1, min_sizes |-> <<1, 1, 1>>,
       aspect_ratio |-> <<1, 1, 1>>, size |-> 220],
      [shape |-> <<5, 7, 5>>, overlap |-> 1, min_sizes |-> <<1, 1, 1>>,
       aspect_ratio |-> <<1, 1, 1>>, size |-> 130] }

\* output_properties as process_flow passes it on (lines 100-101)
PropLists == { << >>, <<"centroid">>, <<"centroid", "area">> }

\* a second object, seen by every chunk whose overlap range holds it
ExtraObjects == { <<0, 0, 0>>, <<3, 3, 3>>, <<2, 4, 4>> }

\* the chunks whose overlap range holds the global coordinate g
Seeing(g, overlap_chunks) ==
    { i \in 1..Len(overlap_chunks) : InRange(g, overlap_chunks[i]) }

\* g in the coordinates of the substack cut at overlap_range
ToLocal(g, overlap_range) == [a \in Axes |-> g[a] - overlap_range[a][1]]

\* lexicographic order of coordinates: the scan order of the label image
LexLess(c, d) ==
    \/ c[1] < d[1]
    \/ c[1] = d[1] /\ c[2] < d[2]
    \/ c[1] = d[1] /\ c[2] = d[2] /\ c[3] < d[3]

RECURSIVE SortCoords(_)
SortCoords(S) ==
    IF S = {} THEN << >>
    ELSE LET m == CHOOSE c \in S : \A d \in S \ {c} : LexLess(c, d)
         IN  <<m>> \o SortCoords(S \ {m})

\* the value chunk i measures for the scalar property of an object: the
\* part of an object a substack holds differs from chunk to chunk
MeasuredBy(i) == 100 + i

\* the regions chunk i reports when it detects the objects at the global
\* coordinates G
RegionsOf(i, G, overlap_chunks) ==
    LET s == SortCoords(G)
    IN  [n \in 1..Len(s) |-> [c |-> ToLocal(s[n], overlap_chunks[i]), v |-> MeasuredBy(i)]]

InitJoin ==
    /\ \E cfg \in JoinConfigs :
          /\ source_shape = cfg.shape
          /\ overlap = cfg.overlap
          /\ min_sizes = cfg.min_sizes
          /\ aspect_ratio = cfg.aspect_ratio
          /\ size = cfg.size
    /\ plan = chunk_ranges(source_shape, overlap, min_sizes, aspect_ratio, size)
    /\ output_properties \in PropLists
    /\ \E p \in Voxels(source_shape) :
       \E S \in SUBSET Seeing(p, plan.overlap) :
       \E Q \in SUBSET (ExtraObjects \ {p}) :
          /\ Cardinality(Q) <= 1
          /\ results =
               [i \in 1..Len(plan.unique) |->
                   IF output_properties = << >> THEN << >>
                   ELSE label_props(
                          RegionsOf(i, {g \in Q : i \in Seeing(g, plan.overlap)}
                                           \cup (IF i \in S THEN {p} ELSE {}),
                                    plan.overlap),
                          output_properties)]
    /\ joined = NotJoined
    /\ NoRun

\* the call join_points(results, unique_chunks, overlap_chunks)
JoinPoints ==
    /\ joined = NotJoined
    /\ joined' = join_points(results, plan.unique, plan.overlap)
    /\ UNCHANGED << inputVars, output_properties, runVars, plan, results >>

NextJoin == JoinPoints

SpecJoin == InitJoin /\ [][NextJoin]_vars

\* the rows of the table join_points returned (its value is column-wise)
JoinedRows ==
    IF joined.err # "" \/ Len(joined.value) = 0 THEN << >>
    ELSE [n \in 1..Len(joined.value[1]) |->
             [c \in 1..Len(joined.value) |-> joined.value[c][n]]]

\* the rows chunk i reported, in global coordinates: coordinate, then values
ReportedRows(i) ==
    IF Len(results[i]) = 0 THEN << >>
    ELSE [n \in 1..Len(results[i][1]) |->
             ToGlobal(results[i][1][n], plan.overlap[i])
                 \o [j \in 1..(Len(results[i]) - 1) |-> results[i][j + 1][n]]]

SeqToSet(s) == { s[n] : n \in 1..Len(s) }

CountIn(s, P(_)) == Cardinality({ n \in 1..Len(s) : P(s[n]) })

\* ------------------------------------------- process_flow specification
MaxProcesses == 2    \* largest processes argument

\* planner arguments of the runs: a grid of four chunks, a volume that fits
\* the budget, an overlap above min_sizes, and an axis that divides evenly
FlowConfigs ==
    { [shape |-> <<1, 3, 3>>, overlap |-> 0, min_sizes |-> <<1, 1, 1>>,
       aspect_ratio |-> <<1, 1, 1>>, size |-> 8],
      [shape |-> <<1, 3, 3>>, overlap |-> 0, min_sizes |-> <<1, 1, 1>>,
       aspect_ratio |-> <<1, 1, 1>>, size |-> 27],
      [shape |-> <<1, 3, 3>>, overlap |-> 2, min_sizes |-> <<1, 1, 1>>,
       aspect_ratio |-> <<1, 1, 1>>, size |-> 8],
      [shape |-> <<1, 3, 4>>, overlap |-> 0, min_sizes |-> <<1, 1, 1>>,
       aspect_ratio |-> <<1, 1, 1>>, size |-> 8] }

\* output_properties as the caller passes it
RequestedProps == { << >>, <<"centroid">>, <<"area">>, <<"centroid", "area">> }

\* flow as the caller passes it: save = "" when the entry has no 'save' key
Flows ==
    { << >>,
      << [filter |-> "RollingBackgroundSubtract", save |-> ""] >>,
      << [filter |-> "BackgroundSubtract", save |-> "out\\d{4}.tif"] >> }

\* the operator classes constructed with temp_dir = True
UsesTempDir(filter) == filter \in {"BackgroundSubtract", "ExtractSurface"}

\* object positions of the runs
FlowObjects == { <<0, 0, 0>>, <<0, 1, 2>> }

\* the scalar property measured for the object at g in a substack that
\* holds the whole object
ObjectValue(g) == 10 + g[1] + g[2] + g[3]

\* the state at the call of process_flow with the sink argument s, planner
\* arguments from configs and a flow from flows
InitRun(s, configs, flows) ==
    /\ \E cfg \in configs :
          /\ source_shape = cfg.shape
          /\ overlap = cfg.overlap
          /\ min_sizes = cfg.min_sizes
          /\ aspect_ratio = cfg.aspect_ratio
          /\ size = cfg.size
    /\ output_properties \in RequestedProps
    /\ processes \in 1..MaxProcesses
    /\ flow \in flows
    /\ objects \in SUBSET (FlowObjects \cap Voxels(source_shape))
    /\ pc = "start"
    /\ fs = {}
    /\ plan = NoPlan
    /\ task = << >>
    /\ pool = "none"
    /\ first_err = NoError
    /\ results = << >>
    /\ joined = NotJoined
    /\ table = NoTable
    /\ error = NoError
    /\ starts = << >>
    /\ runs = << >>
    /\ mosaic = NoMosaic
    /\ completed = << >>
    /\ sink = s
    /\ NoFilters

\* sink = None, the default
InitFlow == InitRun(NoSink, FlowConfigs, Flows)

\* ---------------------------------------------- saving to the mosaic
\* stack_processing/parallelization.py lines 77-88, io/FileList.py, io/TIF.py

\* the voxel indices of a range triple
Box(rng) == { <<z, y, x>> : z \in rng[1][1]..(rng[1][2] - 1),
                            y \in rng[2][1]..(rng[2][2] - 1),
                            x \in rng[3][1]..(rng[3][2] - 1) }

\* io.empty(fname, shape, dtype) for slice z, called by chunk i:
\* tifffile.memmap with a shape makes the file anew, whatever it held
Empty(m, z, i) ==
    [files  |-> m.files \cup {z},
     allocs |-> m.allocs \cup {[z |-> z, by |-> i, lost |-> \E d \in m.data : d.g[1] = z]},
     data   |-> { d \in m.data : d.g[1] # z },
     log    |-> m.log]

\* lines 86-87 for chunk i: unique = filtered_im[unique_slice(...)] is cut
\* from the output at the local indices of the slice, and writeData puts
\* its entry k at unique_indices start + k of the mosaic (FileList.writeData
\* lines 234-253: slice file startIndex + k, TIF.writeData: data_map[sub]).
\* The output at a local index is computed at the source voxel the working
\* copy holds there, local index + overlap start.
UniqueWrites(i, unique_chunks, overlap_chunks) ==
    LET us == unique_slice(overlap_chunks[i], unique_chunks[i])
    IN  { [g   |-> [a \in Axes |-> unique_chunks[i][a][1] + (l[a] - us[a][1])],
           src |-> ToGlobal(l, overlap_chunks[i]),
           by  |-> i] : l \in Box(us) }

\* the records recs are written into the slice files
WriteData(m, recs) ==
    [files  |-> m.files,
     allocs |-> m.allocs,
     data   |-> { d \in m.data : \A r \in recs : r.g # d.g } \cup recs,
     log    |-> m.log \cup { [g |-> r.g, by |-> r.by] : r \in recs }]

\* the loop of lines 81-84 for chunk i from slice z on: every slice file of
\* the z range that does not exist is made
RECURSIVE EnsureSlices(_, _, _, _)
EnsureSlices(m, i, z, stop) ==
    IF z >= stop THEN m
    ELSE EnsureSlices(IF z \in m.files THEN m ELSE Empty(m, z, i), i, z + 1, stop)

\* lines 81-87 for chunk i, run without another task in between
SaveOutput(m, i, unique_chunks, overlap_chunks) ==
    WriteData(EnsureSlices(m, i, overlap_chunks[i][1][1], overlap_chunks[i][1][2]),
              UniqueWrites(i, unique_chunks, overlap_chunks))

\* lines 56, 61: the names of the task's two copies in its subdirectory
mmapFile == "img.tif"

\* a variant in which the raw copy is the working copy itself
rawFile_SameAsWorking == "img.tif"

rawFile == "raw.tif"

\* line 68: params = dict(p) is a copy of the entry; what the pops of lines
\* 69-71 would leave of a dict is the entry without 'filter' and 'save'
Popped(p) == [filter |-> "", save |-> ""]

\* a variant without the copy: the pops act on the entry of flow itself
FlowEntryAfter_NoCopy(p) == Popped(p)

\* lines 68-73: the entry p of flow after one pass of the loop
FlowEntryAfter(p) == p

\* a task that has not begun.  ran lists the operators run, each with the
\* image it was given; an image is named by the operators applied to the
\* source data of the overlap range.  data is what the task's two copies
\* hold, seen is what label_props was given, wrote lists the paths below the
\* temporary root the task has written to.
PendingTask ==
    [pc |-> "pending", op |-> 0, z |-> 0, err |-> NoError, ret |-> << >>,
     ran |-> << >>, data |-> << >>, seen |-> << >>, wrote |-> {}]

Running(i)  == task[i].pc \in {"copy", "filter", "save_check", "save_alloc", "save_write",
                               "measure", "cleanup"}
Finished(i) == task[i].pc \in {"done", "failed"}

\* the exception leaves process_flow
Raise(e) == pc' = "raised" /\ error' = e

\* lines 95-101: the temporary root is made, 'centroid' is put first
PF_Setup ==
    /\ pc = "start"
    /\ fs' = fs \cup {RootDir}
    /\ output_properties' = WithCentroid(output_properties)
    /\ pc' = "copy"
    /\ UNCHANGED << inputVars, sink, filterVars, processes, flow, objects, plan, task, pool, first_err,
                    results, joined, table, error, starts, runs, mosaic, completed >>

\* line 103: the source is copied below the root, or the copy raises
PF_CopySource ==
    /\ pc = "copy"
    /\ \E ok \in BOOLEAN :
          IF ok
          THEN fs' = fs \cup {SourceFile} /\ pc' = "plan" /\ error' = error
          ELSE fs' = fs /\ Raise([kind |-> "StorageError", site |-> "copyData", chunk |-> 0])
    /\ UNCHANGED << inputVars, sink, filterVars, output_properties, processes, flow, objects, plan, task,
                    pool, first_err, results, joined, table, starts, runs, mosaic, completed >>

\* lines 105-111: the grid is planned and one argument tuple made per entry
\* of overlap_chunks, or chunk_ranges raises
PF_Plan ==
    /\ pc = "plan"
    /\ plan' = chunk_ranges(source_shape, overlap, min_sizes, aspect_ratio, size)
    /\ IF plan'.err # ""
       THEN /\ Raise([kind |-> plan'.err, site |-> "chunk_ranges", chunk |-> 0])
            /\ UNCHANGED << task, starts >>
       ELSE /\ pc' = "run"
            /\ task' = [i \in 1..Len(plan'.overlap) |-> PendingTask]
            /\ starts' = [i \in 1..Len(plan'.overlap) |-> 0]
            /\ error' = error
    /\ UNCHANGED << inputVars, sink, filterVars, output_properties, processes, flow, objects, fs, pool,
                    first_err, results, joined, table, runs, mosaic, completed >>

\* line 116: Pool(processes=processes, maxtasksperchild=1)
PF_PoolOpen ==
    /\ pc = "run"
    /\ processes # 1
    /\ pool = "none"
    /\ pool' = "open"
    /\ UNCHANGED << inputVars, sink, filterVars, output_properties, processes, flow, objects, pc, fs, plan,
                    task, first_err, results, joined, table, error, starts, runs, mosaic, completed >>

\* processSubStack raises: nothing is cleaned up on the way out.  In a pool
\* the first exception handed back is the one starmap will raise.
TaskRaises(i, kind) ==
    LET e == [kind |-> kind, site |-> "processSubStack", chunk |-> i]
    IN  /\ task' = [task EXCEPT ![i].pc = "failed", ![i].err = e]
        /\ first_err' = IF processes # 1 /\ first_err = NoError THEN e ELSE first_err

\* a variant that hands a failed task out once more
Startable_Retry(i) == task[i].pc \in {"pending", "failed"} /\ starts[i] < 2

\* lines 114, 117: every entry of argdata is mapped once; a task that has
\* been started, whatever became of it, is not handed out again
Startable(i) == task[i].pc = "pending"

\* lines 46-54: the task of chunk i begins.  Serially (line 114) the tasks
\* run one after the other and the first exception ends the list; in the
\* pool (line 117) the tasks are handed out in order to at most `processes`
\* workers.  The ranges are unpacked and the task's subdirectory is made.
T_Start(i) ==
    /\ pc = "run"
    /\ i \in DOMAIN task
    /\ Startable(i)
    /\ \A j \in 1..(i - 1) : task[j].pc # "pending"
    /\ IF processes = 1
       THEN \A j \in 1..(i - 1) : task[j].pc = "done"
       ELSE pool = "open" /\ Cardinality({j \in DOMAIN task : Running(j)}) < processes
    /\ starts' = [starts EXCEPT ![i] = @ + 1]
    /\ IF Len(plan.overlap[i]) # 3
       THEN TaskRaises(i, "ValueError") /\ fs' = fs       \* zRng, yRng, xRng = ...
       ELSE IF RootDir \notin fs
       THEN TaskRaises(i, "FileNotFoundError") /\ fs' = fs \* os.mkdir
       ELSE /\ fs' = fs \cup {ChunkDir(i)}
            /\ task' = [task EXCEPT ![i].pc = "copy", ![i].wrote = {ChunkDir(i)}]
            /\ first_err' = first_err
    /\ UNCHANGED << inputVars, sink, filterVars, output_properties, processes, flow, objects, pc, plan,
                    pool, results, joined, table, error, runs, mosaic, completed >>

\* lines 56-63: the working copy and the raw copy are materialised
T_Copy(i) ==
    /\ i \in DOMAIN task
    /\ task[i].pc = "copy"
    /\ \E ok \in BOOLEAN :
          IF ok /\ ChunkDir(i) \in fs
          THEN /\ fs' = fs \cup {ChunkFile(i, mmapFile), ChunkFile(i, rawFile)}
               /\ task' = [task EXCEPT ![i].pc = IF Len(flow) = 0 THEN "measure" ELSE "filter",
                                       ![i].op = 1,
                                       ![i].data = [n \in {mmapFile, rawFile} |-> << >>],
                                       ![i].wrote = @ \cup {ChunkFile(i, mmapFile),
                                                            ChunkFile(i, rawFile)}]
               /\ first_err' = first_err
          ELSE TaskRaises(i, "StorageError") /\ fs' = fs
    /\ UNCHANGED << inputVars, sink, filterVars, output_properties, processes, flow, objects, pc, plan,
                    pool, results, joined, table, error, starts, runs, mosaic, completed >>

\* the task of chunk i goes on to the next entry of flow, or to measuring
NextStep(i) ==
    [task EXCEPT ![i].pc = IF task[i].op = Len(flow) THEN "measure" ELSE "filter",
                 ![i].op = IF task[i].op = Len(flow) THEN @ ELSE @ + 1]

\* lines 67-74: one entry of flow: the operator named by the entry runs on
\* filtered_im, the working copy as the operators before it left it, and
\* changes it in place (the operators return self.input).  An entry without
\* 'filter' raises KeyError at the pop of line 69.  The operator removes its
\* own scratch directory when it raises (FilterBase.run) and leaves it
\* otherwise (cleanup is False).  With 'save' the task goes on to the slice
\* files of its z range (line 81).  Serially the tasks share the caller's
\* flow; in a pool each task has the copy that was sent to its worker.
T_Filter(i) ==
    /\ i \in DOMAIN task
    /\ task[i].pc = "filter"
    /\ LET p       == flow[task[i].op]
           scratch == IF UsesTempDir(p.filter)
                      THEN {ChunkFile(i, p.filter)} ELSE {}
           ran     == [task[i] EXCEPT
                         !.ran   = Append(@, [filter |-> p.filter, input |-> task[i].data[mmapFile]]),
                         !.data  = [@ EXCEPT ![mmapFile] = Append(@, p.filter)],
                         !.wrote = @ \cup {ChunkFile(i, mmapFile)} \cup scratch]
       IN  IF p.filter = ""
           THEN /\ TaskRaises(i, "KeyError")
                /\ UNCHANGED << fs, flow >>
           ELSE /\ flow' = IF processes = 1
                           THEN [flow EXCEPT ![task[i].op] = FlowEntryAfter(p)]
                           ELSE flow
                /\ \E outcome \in {"ok", "raise"} :
                      \/ /\ outcome = "ok"
                         /\ fs' = fs \cup scratch
                         /\ task' = [task EXCEPT ![i] =
                                       IF p.save # ""
                                       THEN [ran EXCEPT !.pc = "save_check",
                                                        !.z = plan.overlap[i][1][1]]
                                       ELSE [ran EXCEPT !.pc = NextStep(i)[i].pc,
                                                        !.op = NextStep(i)[i].op]]
                         /\ first_err' = first_err
                      \/ /\ outcome = "raise"
                         /\ fs' = fs
                         /\ TaskRaises(i, "OperatorError")
    /\ UNCHANGED << inputVars, sink, filterVars, output_properties, processes, objects, pc, plan,
                    pool, results, joined, table, error, starts, runs, mosaic, completed >>

\* the loop of line 81 goes on to the next slice of zRng, or ends
NextSlice(i) ==
    IF task[i].z + 1 < plan.overlap[i][1][2]
    THEN [task EXCEPT ![i].pc = "save_check", ![i].z = @ + 1]
    ELSE [task EXCEPT ![i].pc = "save_write"]

\* line 83: os.path.isfile(fname) for the slice file of z
T_SaveCheck(i) ==
    /\ i \in DOMAIN task
    /\ task[i].pc = "save_check"
    /\ task' = IF task[i].z \in mosaic.files
               THEN NextSlice(i)
               ELSE [task EXCEPT ![i].pc = "save_alloc"]
    /\ UNCHANGED << inputVars, sink, filterVars, output_properties, processes, flow, objects, pc, fs, plan,
                    pool, first_err, results, joined, table, error, starts, runs, mosaic,
                    completed >>

\* line 84: io.empty(fname, ...) for the slice file the task found missing
T_SaveAlloc(i) ==
    /\ i \in DOMAIN task
    /\ task[i].pc = "save_alloc"
    /\ mosaic' = Empty(mosaic, task[i].z, i)
    /\ task' = NextSlice(i)
    /\ UNCHANGED << inputVars, sink, filterVars, output_properties, processes, flow, objects, pc, fs, plan,
                    pool, first_err, results, joined, table, error, starts, runs, completed >>

\* lines 86-87: the unique part of the output is written, or the write raises
T_SaveWrite(i) ==
    /\ i \in DOMAIN task
    /\ task[i].pc = "save_write"
    /\ \E ok \in BOOLEAN :
          IF ok
          THEN /\ mosaic' = WriteData(mosaic, UniqueWrites(i, plan.unique, plan.overlap))
               /\ task' = NextStep(i)
               /\ first_err' = first_err
          ELSE /\ mosaic' = mosaic
               /\ TaskRaises(i, "StorageError")
    /\ UNCHANGED << inputVars, sink, filterVars, output_properties, processes, flow, objects, pc, fs, plan,
                    pool, results, joined, table, error, starts, runs, completed >>

\* the regions label_props measures in the substack of chunk i: the objects
\* of the chunk's overlap range, in coordinates local to the substack
FlowRegions(i, objs, overlap_chunks) ==
    LET s == SortCoords({g \in objs : InRange(g, overlap_chunks[i])})
    IN  [n \in 1..Len(s) |-> [c |-> ToLocal(s[n], overlap_chunks[i]), v |-> ObjectValue(s[n])]]

\* lines 90-94: what processSubStack returns
SubStackProps(i, props, objs, overlap_chunks) ==
    IF Len(props) > 0 THEN label_props(FlowRegions(i, objs, overlap_chunks), props) ELSE << >>

\* lines 90-94: the properties are measured, or label_props raises
T_Measure(i) ==
    /\ i \in DOMAIN task
    /\ task[i].pc = "measure"
    /\ \E ok \in BOOLEAN :
          IF ok \/ Len(output_properties) = 0
          THEN /\ task' = [task EXCEPT
                             ![i].pc = "cleanup",
                             ![i].seen = IF Len(output_properties) = 0 THEN << >>
                                         ELSE << [raw    |-> task[i].data[rawFile],
                                                  labels |-> task[i].data[mmapFile]] >>,
                             ![i].ret = SubStackProps(i, output_properties, objects, plan.overlap)]
               /\ first_err' = first_err
          ELSE TaskRaises(i, "MeasureError")
    /\ UNCHANGED << inputVars, sink, filterVars, output_properties, processes, flow, objects, pc, fs, plan,
                    pool, results, joined, table, error, starts, runs, mosaic, completed >>

\* lines 96-98: the task removes its subdirectory and returns
T_Finish(i) ==
    /\ i \in DOMAIN task
    /\ task[i].pc = "cleanup"
    /\ fs' = rmtree(fs, ChunkDir(i))
    /\ task' = [task EXCEPT ![i].pc = "done"]
    /\ completed' = Append(completed, i)
    /\ UNCHANGED << inputVars, sink, filterVars, output_properties, processes, flow, objects, pc, plan,
                    pool, first_err, results, joined, table, error, starts, runs, mosaic >>

\* a variant without the except clause: the exception is raised as it is
PF_SerialRaise_NoCleanup ==
    /\ pc = "run"
    /\ processes = 1
    /\ \E i \in DOMAIN task :
          /\ task[i].pc = "failed"
          /\ Raise(task[i].err)
    /\ UNCHANGED << inputVars, sink, filterVars, output_properties, processes, flow, objects, fs, plan, task,
                    pool, first_err, results, joined, table, starts, runs, mosaic, completed >>

\* lines 114, 119-121: serially the exception of a task reaches the except
\* clause at once: the root is removed and the exception raised again
PF_SerialRaise ==
    /\ pc = "run"
    /\ processes = 1
    /\ \E i \in DOMAIN task :
          /\ task[i].pc = "failed"
          /\ Raise(task[i].err)
    /\ fs' = rmtree(fs, RootDir)
    /\ UNCHANGED << inputVars, sink, filterVars, output_properties, processes, flow, objects, plan, task,
                    pool, first_err, results, joined, table, starts, runs, mosaic, completed >>

\* lines 117, 119-121: starmap raises the first exception handed back once
\* every task of the map has finished (multiprocessing.pool.MapResult); the
\* except clause removes the root and raises it again.  The pool is neither
\* closed nor terminated on this path.
PF_PoolRaise ==
    /\ pc = "run"
    /\ processes # 1
    /\ pool = "open"
    /\ \A i \in DOMAIN task : Finished(i)
    /\ first_err # NoError
    /\ Raise(first_err)
    /\ fs' = rmtree(fs, RootDir)
    /\ UNCHANGED << inputVars, sink, filterVars, output_properties, processes, flow, objects, plan, task,
                    pool, first_err, results, joined, table, starts, runs, mosaic, completed >>

\* a variant that lists the results in the order the tasks returned
PF_Collect_ByCompletion ==
    /\ pc = "run"
    /\ processes # 1 => pool = "open"
    /\ \A i \in DOMAIN task : task[i].pc = "done"
    /\ results' = [n \in DOMAIN task |-> task[completed[n]].ret]
    /\ pool' = IF processes # 1 THEN "closed" ELSE pool
    /\ pc' = "join"
    /\ UNCHANGED << inputVars, sink, filterVars, output_properties, processes, flow, objects, fs, plan,
                    task, first_err, joined, table, error, starts, runs, mosaic, completed >>

\* lines 114, 117-118: every task returned; results is in argdata order and
\* the pool is closed
PF_Collect ==
    /\ pc = "run"
    /\ processes # 1 => pool = "open"
    /\ \A i \in DOMAIN task : task[i].pc = "done"
    /\ results' = [i \in DOMAIN task |-> task[i].ret]
    /\ pool' = IF processes # 1 THEN "closed" ELSE pool
    /\ pc' = "join"
    /\ UNCHANGED << inputVars, sink, filterVars, output_properties, processes, flow, objects, fs, plan,
                    task, first_err, joined, table, error, starts, runs, mosaic, completed >>

\* a variant that writes the table to the sink before the merge
PF_Join_SinkFirst ==
    /\ pc = "join"
    /\ joined' = join_points(results, plan.unique, plan.overlap)
    /\ sink' = IF sink.path # "" THEN [sink EXCEPT !.written = TRUE] ELSE sink
    /\ IF joined'.err # ""
       THEN Raise([kind |-> joined'.err, site |-> "join_points", chunk |-> 0])
       ELSE pc' = "jsonify" /\ error' = error
    /\ UNCHANGED << inputVars, filterVars, output_properties, processes, flow, objects, fs, plan,
                    task, pool, first_err, results, table, starts, runs, mosaic, completed >>

\* line 124
PF_Join ==
    /\ pc = "join"
    /\ joined' = join_points(results, plan.unique, plan.overlap)
    /\ IF joined'.err # ""
       THEN Raise([kind |-> joined'.err, site |-> "join_points", chunk |-> 0])
       ELSE pc' = "jsonify" /\ error' = error
    /\ UNCHANGED << inputVars, sink, filterVars, output_properties, processes, flow, objects, fs, plan,
                    task, pool, first_err, results, table, starts, runs, mosaic, completed >>

\* line 125
PF_Jsonify ==
    /\ pc = "jsonify"
    /\ table' = jsonify_points(output_properties, joined.value)
    /\ IF table'.err # ""
       THEN Raise([kind |-> table'.err, site |-> "jsonify_points", chunk |-> 0])
       ELSE pc' = "finish" /\ error' = error
    /\ UNCHANGED << inputVars, sink, filterVars, output_properties, processes, flow, objects, fs, plan,
                    task, pool, first_err, results, joined, starts, runs, mosaic, completed >>

\* lines 127-131: the root is removed, the table is written to the sink when
\* one was given, and the table is returned; io.writePoints may raise,
\* having written or not
PF_Finish ==
    /\ pc = "finish"
    /\ fs' = rmtree(fs, RootDir)
    /\ IF sink.path = ""
       THEN pc' = "returned" /\ UNCHANGED << sink, error >>
       ELSE \E ok \in BOOLEAN :
               IF ok
               THEN /\ sink' = [sink EXCEPT !.written = TRUE]
                    /\ pc' = "returned"
                    /\ error' = error
               ELSE /\ \E w \in BOOLEAN : sink' = [sink EXCEPT !.written = w]
                    /\ Raise([kind |-> "StorageError", site |-> "writePoints", chunk |-> 0])
    /\ UNCHANGED << inputVars, filterVars, output_properties, processes, flow, objects, plan, task,
                    pool, first_err, results, joined, table, starts, runs, mosaic, completed >>

Next ==
    \/ PF_Setup
    \/ PF_CopySource
    \/ PF_Plan
    \/ PF_PoolOpen
    \/ \E i \in DOMAIN task : T_Start(i)
    \/ \E i \in DOMAIN task : T_Copy(i)
    \/ \E i \in DOMAIN task : T_Filter(i)
    \/ \E i \in DOMAIN task : T_SaveCheck(i)
    \/ \E i \in DOMAIN task : T_SaveAlloc(i)
    \/ \E i \in DOMAIN task : T_SaveWrite(i)
    \/ \E i \in DOMAIN task : T_Measure(i)
    \/ \E i \in DOMAIN task : T_Finish(i)
    \/ PF_SerialRaise
    \/ PF_PoolRaise
    \/ PF_Collect
    \/ PF_Join
    \/ PF_Jsonify
    \/ PF_Finish

Init == InitFlow

Spec == Init /\ [][Next]_vars

\* ---------------------------------------------------- runs with a sink
\* the file the caller names as sink
SinkFile == [path |-> "cells.csv", written |-> FALSE]

InitSink == InitRun(SinkFile, FlowConfigs, Flows)

SpecSink == InitSink /\ [][Next]_vars

\* ---------------------------------------------------- save specification
\* The chunks of a planned grid save an operator's output one at a time,
\* in any order.
SaveFlow == << [filter |-> "BackgroundSubtract", save |-> "out\\d{4}.tif"] >>

\* planner arguments of the saved grids: 2 x 2 x 2 chunks with margins
SaveConfigs ==
    { [shape |-> <<7, 7, 7>>, overlap |-> 1, min_sizes |-> <<1, 1, 1>>,
       aspect_ratio |-> <<1, 1, 1>>, size |-> 220],
      [shape |-> <<7, 5, 7>>, overlap |-> 1, min_sizes |-> <<1, 1, 1>>,
       aspect_ratio |-> <<1, 1, 1>>, size |-> 220] }

InitSave ==
    /\ \E cfg \in SaveConfigs :
          /\ source_shape = cfg.shape
          /\ overlap = cfg.overlap
          /\ min_sizes = cfg.min_sizes
          /\ aspect_ratio = cfg.aspect_ratio
          /\ size = cfg.size
    /\ plan = chunk_ranges(source_shape, overlap, min_sizes, aspect_ratio, size)
    /\ output_properties = << >>
    /\ processes = 1
    /\ flow = SaveFlow
    /\ objects = {}
    /\ pc = "off"
    /\ fs = {}
    /\ task = << >>
    /\ pool = "none"
    /\ first_err = NoError
    /\ results = << >>
    /\ joined = NotJoined
    /\ table = NoTable
    /\ error = NoError
    /\ starts = [i \in 1..Len(plan.unique) |-> 0]
    /\ runs = << >>
    /\ mosaic = NoMosaic
    /\ completed = << >>
    /\ sink = NoSink
    /\ NoFilters

\* lines 77-88 of processSubStack for chunk i
SaveUnique(i) ==
    /\ starts[i] = 0
    /\ starts' = [starts EXCEPT ![i] = 1]
    /\ mosaic' = SaveOutput(mosaic, i, plan.unique, plan.overlap)
    /\ UNCHANGED << inputVars, sink, filterVars, output_properties, processes, flow, objects, pc, fs, plan,
                    task, pool, first_err, results, joined, table, error, runs, completed >>

NextSave == \E i \in DOMAIN starts : SaveUnique(i)

SpecSave == InitSave /\ [][NextSave]_vars

\* --------------------------------------------- runs of operator chains
\* flows of several entries: the operators differ from entry to entry, and
\* one entry saves its output
ChainFlows ==
    { << [filter |-> "RollingBackgroundSubtract", save |-> ""],
         [filter |-> "BackgroundSubtract", save |-> "out\\d{4}.tif"] >>,
      << [filter |-> "DoG", save |-> ""],
         [filter |-> "HMax", save |-> ""] >> }

\* planner arguments of the chain runs: the grid of four chunks
ChainConfigs ==
    { [shape |-> <<1, 3, 3>>, overlap |-> 0, min_sizes |-> <<1, 1, 1>>,
       aspect_ratio |-> <<1, 1, 1>>, size |-> 8] }

InitChain == InitRun(NoSink, ChainConfigs, ChainFlows)

SpecChain == InitChain /\ [][Next]_vars

\* ------------------------------------------ image_filters/filter.py
\* The FilterManager and the operator objects.  A class is named by its
\* __name__, the module that defines it and the __name__ of its first base;
\* a value of an attribute is written as Python would print it.

MaxInstances == 2    \* most operator instances made of the FilterManager

\* the operator classes of background_subtraction.py, a class of the same
\* name defined elsewhere, and a class derived from an operator class
RollingClass    == [name |-> "RollingBackgroundSubtract", module |-> "bq3d", base |-> "FilterBase"]
BackgroundClass == [name |-> "BackgroundSubtract", module |-> "bq3d", base |-> "FilterBase"]
OtherRolling    == [name |-> "RollingBackgroundSubtract", module |-> "user", base |-> "FilterBase"]
DerivedClass    == [name |-> "Derived", module |-> "user", base |-> "RollingBackgroundSubtract"]

AddedClasses == {RollingClass, BackgroundClass, OtherRolling, DerivedClass}

\* the names asked of get_filter
AskedNames == {"RollingBackgroundSubtract", "BackgroundSubtract", "Median"}

\* FilterBase.__init__ (lines 72-83) after the __init__ of the class
\* (background_subtraction.py lines 33-35, 77-81): the attributes of a new
\* instance; log is left out
Defaults(name) ==
    IF name = "BackgroundSubtract"
    THEN [input |-> "None", output |-> "None", cleanup |-> "False", subStack |-> "None",
          temp_dir |-> "True", name |-> name,
          background |-> "None", shift_z |-> "0", method |-> "mean"]
    ELSE [input |-> "None", output |-> "None", cleanup |-> "False", subStack |-> "None",
          temp_dir |-> "False", name |-> name, size |-> "None"]

\* the attribute _generate_output refuses to run without
\* (background_subtraction.py lines 38-39, 85-86)
Required(name) == IF name = "BackgroundSubtract" THEN "background" ELSE "size"

\* the tests of those lines: 'self.background is None', 'not self.size'
Missing(name, value) ==
    IF name = "BackgroundSubtract" THEN value = "None" ELSE value \in {"None", "0"}

\* a new instance of class c.  last holds the mapping of the latest
\* set_inputs call; began: run has been called; dir: the state of the scratch
\* directory; read, changed: _generate_output has read, has changed the
\* input; err: what the latest run raised
NewInstance(c) ==
    [cls |-> c, attrs |-> Defaults(c.name), last |-> << >>, began |-> FALSE,
     dir |-> "none", read |-> FALSE, changed |-> FALSE, err |-> ""]

\* the class registered under the name n
ClassOf(n) == CHOOSE c \in filter_manager.filters : c.name = n

Registered(n) == \E c \in filter_manager.filters : c.name = n

\* a variant that hands out the instance made before for the same name,
\* with the attribute values it has by now
get_filter_Shared(n) ==
    IF \E k \in DOMAIN im_filters : im_filters[k].cls.name = n
    THEN LET k == CHOOSE k \in DOMAIN im_filters : im_filters[k].cls.name = n
         IN  [NewInstance(ClassOf(n)) EXCEPT !.attrs = im_filters[k].attrs]
    ELSE NewInstance(ClassOf(n))

\* get_filter, line 33: self._filters[im_filter]() is a new instance
get_filter(n) == NewInstance(ClassOf(n))

\* get_filter(n), lines 32-35
GetFilter(n) ==
    /\ Len(im_filters) < MaxInstances
    /\ IF Registered(n)
       THEN /\ im_filters' = Append(im_filters, get_filter(n))
            /\ filter_manager' = [filter_manager EXCEPT
                                    !.call = [op |-> "get_filter", arg |-> n, raised |-> ""]]
       ELSE /\ im_filters' = im_filters
            /\ filter_manager' = [filter_manager EXCEPT
                                    !.call = [op |-> "get_filter", arg |-> n,
                                              raised |-> "ValueError"]]

\* add_filter(im_filter) for an instance of class c, lines 45-57 (an
\* instance of an operator class is a FilterBase object, line 45)
AddFilter(c) ==
    /\ im_filters' = im_filters
    /\ IF c.base = "FilterBase" /\ ~Registered(c.name)
       THEN filter_manager' = [filters |-> filter_manager.filters \cup {c},
                               call |-> [op |-> "add_filter", arg |-> c.name, raised |-> ""]]
       ELSE filter_manager' = [filter_manager EXCEPT
                                 !.call = [op |-> "add_filter", arg |-> c.name,
                                           raised |-> "ValueError"]]

\* the mappings given to set_inputs: by the tests (tests/filters.py lines
\* 37, 50), by filter_image (functions.py lines 29-30), and with a key that
\* names no attribute
KwargsGiven ==
    { [size |-> "3"],
      [input |-> "img", output |-> "img"],
      [input |-> "img", output |-> "img", background |-> "bg"],
      [size |-> "5", radius |-> "2"] }

\* a variant that sets every key, whether or not the attribute exists
set_inputs_AnyKey(attrs, kwargs) ==
    [a \in DOMAIN attrs \cup DOMAIN kwargs |->
        IF a \in DOMAIN kwargs THEN kwargs[a] ELSE attrs[a]]

\* set_inputs, lines 92-97: setattr for the keys hasattr finds; the other
\* keys are logged; _validate_input (lines 104-110) does nothing
set_inputs(attrs, kwargs) ==
    [a \in DOMAIN attrs |-> IF a \in DOMAIN kwargs THEN kwargs[a] ELSE attrs[a]]

\* im_filter.set_inputs(kwargs) on instance k
SetInputs(k, kwargs) ==
    /\ im_filters' = [im_filters EXCEPT
                        ![k].attrs = set_inputs(@, kwargs),
                        ![k].last  = << kwargs >>]
    /\ filter_manager' = filter_manager

\* set_temp_dir (lines 145-155): a directory is made only while temp_dir
\* is still True, and temp_dir is its path from then on
set_temp_dir(inst, path) ==
    IF inst.attrs.temp_dir = "True"
    THEN [inst EXCEPT !.attrs.temp_dir = path, !.dir = "made"]
    ELSE inst

\* im_filter.set_temp_dir(root=temp_dir_root) on instance k (functions.py
\* line 33)
SetTempDir(k) ==
    /\ im_filters' = [im_filters EXCEPT ![k] = set_temp_dir(@, "root/name<uuid>")]
    /\ filter_manager' = filter_manager

\* lines 126-129: _generate_output raised kind; the scratch directory is
\* removed
RunRaises(inst, kind) ==
    [inst EXCEPT !.err = kind,
                 !.dir = IF inst.attrs.temp_dir # "False" THEN "removed" ELSE @]

\* im_filter.run() on instance k, lines 119-135: the scratch directory is
\* made if it has not been (lines 120-121), then _generate_output refuses
\* to run without its required attribute, fails on an input of None
\* (img.shape), or reads the input and changes it in place; the input is the
\* output
Run(k) ==
    /\ LET begun == [set_temp_dir(im_filters[k], "tmp/name<uuid>") EXCEPT !.began = TRUE]
           req   == begun.attrs[Required(begun.cls.name)]
       IN  \E fails \in BOOLEAN :
              im_filters' = [im_filters EXCEPT ![k] =
                  IF Missing(begun.cls.name, req) THEN RunRaises(begun, "RuntimeError")
                  ELSE IF begun.attrs.input = "None"
                  THEN RunRaises(begun, "AttributeError")
                  ELSE IF fails
                  THEN RunRaises([begun EXCEPT !.read = TRUE], "OperatorError")
                  ELSE [begun EXCEPT !.read = TRUE, !.changed = TRUE,
                                     !.attrs.output = begun.attrs.input,
                                     !.err = ""]]
    /\ filter_manager' = filter_manager

\* everything but the FilterManager and the operator instances
flowVars == << inputVars, output_properties, processes, flow, objects, pc, fs, plan, task,
               pool, first_err, results, joined, table, error, starts, runs, mosaic,
               completed, sink >>

\* no run of process_flow is under way
NoFlow ==
    /\ source_shape = <<1, 1, 1>>
    /\ overlap = 0
    /\ min_sizes = <<1, 1, 1>>
    /\ aspect_ratio = <<1, 1, 1>>
    /\ size = 1
    /\ output_properties = << >>
    /\ plan = NoPlan
    /\ results = << >>
    /\ joined = NotJoined
    /\ processes = 1
    /\ flow = << >>
    /\ objects = {}
    /\ pc = "off"
    /\ fs = {}
    /\ task = << >>
    /\ pool = "none"
    /\ first_err = NoError
    /\ table = NoTable
    /\ error = NoError
    /\ starts = << >>
    /\ runs = << >>
    /\ mosaic = NoMosaic
    /\ completed = << >>
    /\ sink = NoSink

\* ------------------------------------------- FilterManager specification
\* the FilterManager as constructed, before a module registers its classes
InitManager ==
    /\ NoFlow
    /\ NoFilters

NextManager ==
    \/ /\ \E c \in AddedClasses : AddFilter(c)
       /\ UNCHANGED flowVars
    \/ /\ \E n \in AskedNames : GetFilter(n)
       /\ UNCHANGED flowVars
    \/ /\ \E k \in DOMAIN im_filters : \E kwargs \in KwargsGiven : SetInputs(k, kwargs)
       /\ UNCHANGED flowVars

SpecManager == InitManager /\ [][NextManager]_vars

\* ------------------------------------------------ operator specification
\* one instance of an operator class of background_subtraction.py, as its
\* constructor leaves it
InitFilter ==
    /\ NoFlow
    /\ filter_manager = [filters |-> {RollingClass, BackgroundClass}, call |-> NoCall]
    /\ \E c \in {RollingClass, BackgroundClass} : im_filters = << NewInstance(c) >>

NextFilter ==
    \/ /\ \E k \in DOMAIN im_filters : \E kwargs \in KwargsGiven : SetInputs(k, kwargs)
       /\ UNCHANGED flowVars
    \/ /\ \E k \in DOMAIN im_filters : SetTempDir(k)
       /\ UNCHANGED flowVars
    \/ /\ \E k \in DOMAIN im_filters : Run(k)
       /\ UNCHANGED flowVars

SpecFilter == InitFilter /\ [][NextFilter]_vars

\* ---------------------------------------- runs at two memory budgets
\* What process_flow returns or raises for a serial run in which copyData
\* and every operator succeed: lines 100-125 without the file system.
process_flow_value(shape, ovl, mins, aspect, budget, props, objs) ==
    LET keys == WithCentroid(props)
        pl   == chunk_ranges(shape, ovl, mins, aspect, budget)
    IN  IF pl.err # "" THEN [err |-> pl.err, res |-> << >>]
        \* processSubStack unpacks overlap_indices into three ranges
        ELSE IF \E i \in 1..Len(pl.overlap) : Len(pl.overlap[i]) # 3
        THEN [err |-> "ValueError", res |-> << >>]
        ELSE LET res == [i \in 1..Len(pl.overlap) |-> SubStackProps(i, keys, objs, pl.overlap)]
                 j   == join_points(res, pl.unique, pl.overlap)
             IN  IF j.err # "" THEN [err |-> j.err, res |-> << >>]
                 ELSE jsonify_points(keys, j.value)

\* the budgets of the two runs of one volume: one that holds the whole
\* 7 x 7 x 7 volume, one that forces the 2 x 2 x 2 grid
EquivBudgets == [single |-> 400, split |-> 220]

ExtraSubsets == {{}} \cup { {q} : q \in ExtraObjects }

InitEquiv ==
    /\ source_shape = <<7, 7, 7>>
    /\ overlap = 1
    /\ min_sizes = <<1, 1, 1>>
    /\ aspect_ratio = <<1, 1, 1>>
    /\ size = 0
    /\ output_properties \in RequestedProps
    /\ processes = 1
    /\ flow = << >>
    /\ objects \in {{}} \cup { {p} \cup Q : p \in Voxels(source_shape), Q \in ExtraSubsets }
    /\ pc = "off"
    /\ fs = {}
    /\ plan = NoPlan
    /\ task = << >>
    /\ pool = "none"
    /\ first_err = NoError
    /\ results = << >>
    /\ joined = NotJoined
    /\ table = NoTable
    /\ error = NoError
    /\ starts = << >>
    /\ runs = [b \in DOMAIN EquivBudgets |-> NoTable]
    /\ mosaic = NoMosaic
    /\ completed = << >>
    /\ sink = NoSink
    /\ NoFilters

\* process_flow(source, flow, ..., size = EquivBudgets[b], processes = 1)
RunFlow(b) ==
    /\ runs[b] = NoTable
    /\ runs' = [runs EXCEPT ![b] =
                  process_flow_value(source_shape, overlap, min_sizes, aspect_ratio,
                                     EquivBudgets[b], output_properties, objects)]
    /\ UNCHANGED << inputVars, sink, filterVars, output_properties, processes, flow, objects, pc, fs, plan,
                    task, pool, first_err, results, joined, table, error, starts,
                    mosaic, completed >>

NextEquiv == \E b \in DOMAIN EquivBudgets : RunFlow(b)

SpecEquiv == InitEquiv /\ [][NextEquiv]_vars

\* the rows of a returned table: one tuple of column entries per detection
DetectionsOf(outcome) ==
    IF Len(outcome.res) = 0 THEN {}
    ELSE { [c \in 1..Len(outcome.res) |-> outcome.res[c][2][n]] :
              n \in 1..Len(outcome.res[1][2]) }

\* The run of the state machine returns and raises what process_flow_value
\* says, whenever no copy, operator or measurement was made to fail.
FlowReturnsValue ==
    LET v == process_flow_value(source_shape, overlap, min_sizes, aspect_ratio, size,
                                output_properties, objects)
    IN  /\ pc = "returned" => table = v
        /\ (pc = "raised" /\ error.site \in {"chunk_ranges", "join_points", "jsonify_points"})
              => v.err = error.kind

\* ===================================================================== claims

RowCoord(row) == << row[1], row[2], row[3] >>

\* the rows of s whose coordinate is g, in order
RowsAt(s, g) == SelectSeq(s, LAMBDA row : RowCoord(row) = g)

Chunks == 1..Len(plan.unique)

\* the chunk whose unique range holds g
OwnerOf(g) == CHOOSE i \in Chunks : InRange(g, plan.unique[i])

\* every voxel of the volume lies in the unique range of exactly one chunk
TilesVolume(unique_chunks, shape) ==
    \A v \in Voxels(shape) :
        Cardinality({ i \in 1..Len(unique_chunks) :
                        Len(unique_chunks[i]) = 3 /\ InRange(v, unique_chunks[i]) }) = 1

\* C1: for every global coordinate at which chunks report a detection,
\* join_points returns exactly the copy reported by the chunk whose unique
\* range holds the coordinate: that copy once, no copy of another chunk.
C1_EachDetectionOnce ==
    (joined.err # "none" /\ TilesVolume(plan.unique, source_shape)) =>
        \A i \in Chunks :
            \A row \in SeqToSet(ReportedRows(i)) :
                /\ joined.err = ""
                /\ RowsAt(JoinedRows, RowCoord(row))
                     = RowsAt(ReportedRows(OwnerOf(RowCoord(row))), RowCoord(row))

\* the planner arguments satisfy the constraints chunk_ranges checks
ConstraintsSatisfied ==
    \A a \in Axes :
        /\ overlap <= min_sizes[a]
        /\ size < Prod3(source_shape) =>
              LET M == MaxUnique(size, aspect_ratio, overlap, a)
              IN  /\ M >= min_sizes[a]
                  /\ source_shape[a] \div CeilDiv(source_shape[a], M) >= min_sizes[a]

\* C2: for arguments that satisfy the constraints, whether or not the axis
\* lengths divide evenly by the maximum unique size, chunk_ranges returns a
\* grid whose unique ranges tile the volume (the whole-volume return of the
\* unpartitioned case being the one descriptor of the whole volume).
C2_TilingCompleteness ==
    (plan.err # "none" /\ ConstraintsSatisfied) =>
        /\ plan.err = ""
        /\ size < Prod3(source_shape) => TilesVolume(plan.unique, source_shape)
        /\ size >= Prod3(source_shape) => plan.unique = [a \in Axes |-> <<0, source_shape[a]>>]

\* C3: in a partitioned grid every overlap range contains its unique range,
\* stays inside the volume, and each of its edges lies exactly overlap
\* voxels outside the unique range unless it is clamped at the volume
\* boundary (so clamping one edge never moves the other).
C3_OverlapContainment ==
    Partitioned =>
        \A i \in Chunks : \A a \in Axes :
            LET u == plan.unique[i][a]
                o == plan.overlap[i][a]
            IN  /\ o[1] <= u[1] /\ u[2] <= o[2]
                /\ 0 <= o[1] /\ o[2] <= source_shape[a]
                /\ o[1] = u[1] - overlap \/ (o[1] = 0 /\ u[1] - overlap < 0)
                /\ o[2] = u[2] + overlap \/ (o[2] = source_shape[a] /\ u[2] + overlap > source_shape[a])

\* C3 witness: a partitioned grid with a positive overlap in which a chunk
\* is clamped at the lower volume boundary and widened at its upper edge
C3_Witness ==
    /\ Partitioned
    /\ overlap >= 1
    /\ \E i \in Chunks : \E a \in Axes :
          /\ plan.unique[i][a][1] = 0
          /\ plan.overlap[i][a][1] = 0
          /\ plan.overlap[i][a][2] = plan.unique[i][a][2] + overlap
          /\ plan.overlap[i][a][2] < source_shape[a]

\* C4: chunk i keeps a reported detection, with the property values it was
\* reported with, if and only if its coordinate plus the start of
\* overlap_ranges[i] lies in the half-open unique_ranges[i].
C4_KeepIffInUnique ==
    joined.err # "none" =>
        \A i \in Chunks :
            \A row \in SeqToSet(ReportedRows(i)) :
                InUnique(row, plan.unique[i]) <=> row \in SeqToSet(JoinedRows)

\* C5: for a fixed volume and fixed objects, the run whose budget holds
\* the whole volume and the run whose budget forces the 2 x 2 x 2 grid both
\* return, and return the same set of detections.
C5_SingleChunkEquivalence ==
    (/\ DOMAIN runs = DOMAIN EquivBudgets
     /\ \A b \in DOMAIN runs : runs[b] # NoTable) =>
        /\ runs.single.err = ""
        /\ runs.split.err = ""
        /\ DetectionsOf(runs.single) = DetectionsOf(runs.split)

AnyTaskFailed == \E i \in DOMAIN task : task[i].pc = "failed"

\* C6: once process_flow has raised because a chunk task failed, serially
\* or in the pool, neither the temporary root nor anything below it exists,
\* and no chunk task is still running that could create files there.
C6_NoTempAfterTaskFailure ==
    (pc = "raised" /\ error.site = "processSubStack") =>
        /\ RootDir \notin fs
        /\ \A f \in fs : ~Under(f, RootDir)
        /\ \A i \in DOMAIN task : ~Running(i)

\* C6 witness: in the pool the operator of the second chunk raised while the
\* first chunk completed, and process_flow has raised that error
C6_Witness ==
    /\ pc = "raised"
    /\ processes = 2
    /\ Len(task) >= 2
    /\ task[1].pc = "done"
    /\ task[2].pc = "failed"
    /\ error = task[2].err
    /\ error.kind = "OperatorError"

\* C7: whenever processSubStack has exited, by returning or by raising, the
\* task's own temporary subdirectory and everything in it is gone.
C7_TaskRemovesOwnDir ==
    \A i \in DOMAIN task :
        Finished(i) => \A f \in fs : f.chunk # i

\* C8: whenever process_flow has raised, at whatever stage after it made
\* the temporary root, the root has been removed.
C8_RootRemovedBeforeRaise ==
    pc = "raised" => RootDir \notin fs

\* C9: no chunk task is started more than once; once a chunk task has
\* failed, join_points is never called, and process_flow ends by raising
\* the error of a failed task.
C9_NoRetrySameError ==
    /\ \A i \in DOMAIN starts : starts[i] <= 1
    /\ AnyTaskFailed =>
          /\ joined = NotJoined
          /\ pc \in {"run", "raised"}
          /\ pc = "raised" => \E i \in DOMAIN task : task[i].pc = "failed" /\ error = task[i].err
          /\ ~(ENABLED Next) => pc = "raised"

\* C9 witness: a chunk succeeded, another failed, and process_flow raised
\* the error without a call of join_points
C9_Witness ==
    /\ pc = "raised"
    /\ error.site = "processSubStack"
    /\ \E i \in DOMAIN task : task[i].pc = "done"
    /\ \E i \in DOMAIN task : task[i].pc = "failed" /\ error = task[i].err
    /\ joined = NotJoined
    /\ \A i \in DOMAIN starts : starts[i] <= 1

\* C10: from the first failure of a chunk task on, no task that had not
\* started is started, and when process_flow raises the error of a pool
\* task the pool is no longer open.
C10_CancelsOnFirstFailure ==
    /\ [][AnyTaskFailed =>
            \A j \in DOMAIN task : task[j].pc = "pending" => task'[j].pc = "pending"]_vars
    /\ []((pc = "raised" /\ error.site = "processSubStack" /\ processes # 1)
            => pool # "open")

\* process_flow has the results of the chunk tasks in hand
Collected ==
    \/ pc \in {"join", "jsonify", "finish", "returned"}
    \/ pc = "raised" /\ error.site \in {"join_points", "jsonify_points"}

\* C11: in the pool join_points is called only once every chunk task has
\* returned, results[i] is what the task of chunk i returned whatever the
\* order of return, and what process_flow returns or raises from merging is
\* what the serial run returns or raises.
C11_ResultsInChunkOrder ==
    processes # 1 =>
        /\ (Collected \/ joined # NotJoined) =>
              /\ \A i \in DOMAIN task : task[i].pc = "done"
              /\ Len(completed) = Len(task)
              /\ results = [i \in DOMAIN task |->
                              SubStackProps(i, output_properties, objects, plan.overlap)]
        /\ FlowReturnsValue

\* C11 witness: a pool run returned a table of two detections made by
\* different chunks, and the first chunk was not the first to return
C11_Witness ==
    /\ pc = "returned"
    /\ processes # 1
    /\ Len(completed) = Len(task)
    /\ completed[1] # 1
    /\ \E i, j \in DOMAIN results : results[i] # results[j]
    /\ Len(table.res) > 0
    /\ Len(table.res[1][2]) = 2

\* some entry of flow saves its output
SavesOutput == \E n \in 1..Len(flow) : flow[n].save # ""

\* C12: whatever the interleaving of the chunk tasks, every slice file of
\* the mosaic is made at most once and never once it holds written data, and
\* when the run has returned the mosaic holds the unique region of every
\* chunk as that chunk wrote it.
C12_MosaicAllocatedOnce ==
    /\ \A a, b \in mosaic.allocs : a.z = b.z => a = b
    /\ \A a \in mosaic.allocs : ~a.lost
    /\ (pc = "returned" /\ SavesOutput) =>
          \A i \in Chunks : \A g \in Box(plan.unique[i]) :
              \E d \in mosaic.data : d.g = g /\ d.by = i

\* chunk i has written to the mosaic
Saved(i) == \E r \in mosaic.log : r.by = i

\* C13: a chunk that saved wrote the voxels of its unique range and no
\* other, each with the value the working copy holds at that voxel minus
\* the overlap start; no voxel was written twice, and once every chunk has
\* saved every voxel of the volume has been written.
C13_OnlyUniqueWritten ==
    /\ \A i \in Chunks :
          Saved(i) => { r.g : r \in { q \in mosaic.log : q.by = i } } = Box(plan.unique[i])
    /\ \A d \in mosaic.data : d.src = d.g
    /\ Cardinality(mosaic.log) = Cardinality({ r.g : r \in mosaic.log })
    /\ (\A i \in Chunks : Saved(i)) => { r.g : r \in mosaic.log } = Voxels(source_shape)

\* C13 witness: every chunk of a grid with overlap margins has saved, and
\* the mosaic holds one value for every voxel of the volume
C13_Witness ==
    /\ overlap >= 1
    /\ \A i \in Chunks : Saved(i) /\ plan.overlap[i] # plan.unique[i]
    /\ Cardinality(mosaic.data) = Prod3(source_shape)
    /\ \E d \in mosaic.data : d.by = Len(plan.unique) /\ d.g = <<source_shape[1] - 1,
                                   source_shape[2] - 1, source_shape[3] - 1>>

\* the descriptor of the whole volume
WholeVolume(shape) == [a \in Axes |-> <<0, shape[a]>>]

\* C14: when the budget in voxels is at least the voxel count of the
\* volume, chunk_ranges returns unique_chunks and overlap_chunks that each
\* list exactly one chunk descriptor, that of the whole volume.
C14_SingleChunkReturn ==
    (/\ plan.err # "none"
     /\ size >= Prod3(source_shape)
     /\ \A a \in Axes : overlap <= min_sizes[a]) =>
        /\ plan.err = ""
        /\ plan.unique = << WholeVolume(source_shape) >>
        /\ plan.overlap = << WholeVolume(source_shape) >>

\* the ranges the chunks of a grid have along axis a
AxisRanges(chunks, a) == { chunks[i][a] : i \in 1..Len(chunks) }

\* the least number of pieces of at most M voxels that cover L voxels
PiecesNeeded(L, M) == CHOOSE n \in 1..L : n * M >= L /\ (n - 1) * M < L

\* C15: in a partitioned grid an axis of length L that is not a multiple of
\* its maximum unique size M is cut into n = ceil(L / M) contiguous pieces,
\* the first n - 1 of floor(L / n) voxels and the last of the rest; for
\* L = 100, M = 30 and overlap 5 the pieces are 25 voxels each and the overlap
\* ranges [0,30), [20,55), [45,80), [70,100).
C15_UnevenSplit ==
    Partitioned =>
        \A a \in Axes :
            LET L == source_shape[a]
                M == MaxUnique(size, aspect_ratio, overlap, a)
                n == PiecesNeeded(L, M)
                q == L \div n
            IN  /\ L % M # 0 =>
                      AxisRanges(plan.unique, a) =
                          { << (k - 1) * q, IF k < n THEN k * q ELSE L >> : k \in 1..n }
                /\ (L = 100 /\ M = 30 /\ overlap = 5) =>
                      /\ AxisRanges(plan.unique, a) =
                            { <<0, 25>>, <<25, 50>>, <<50, 75>>, <<75, 100>> }
                      /\ AxisRanges(plan.overlap, a) =
                            { <<0, 30>>, <<20, 55>>, <<45, 80>>, <<70, 100>> }

\* C15 witness: the planned grid of the volume with an axis of 100 voxels,
\* maximum unique size 30 and overlap 5; its other axes, of 31 voxels, are
\* cut into a piece of 15 and a larger last piece of 16 voxels
C15_Witness ==
    /\ Partitioned
    /\ source_shape[1] = 100
    /\ MaxUnique(size, aspect_ratio, overlap, 1) = 30
    /\ overlap = 5
    /\ Cardinality(AxisRanges(plan.unique, 1)) = 4
    /\ AxisRanges(plan.unique, 2) = { <<0, 15>>, <<15, 31>> }

\* number of voxels of a range triple
Extent(rng) == (rng[1][2] - rng[1][1]) * (rng[2][2] - rng[2][1]) * (rng[3][2] - rng[3][1])

\* C16: in a partitioned grid the unique extent of every chunk on every
\* axis is at most the maximum unique size M of the axis, its overlap extent
\* at most M + 2 * overlap, and the voxel count of its overlap range at most
\* the budget in voxels.
C16_ChunkWithinBudget ==
    Partitioned =>
        \A i \in Chunks :
            /\ \A a \in Axes :
                  LET M == MaxUnique(size, aspect_ratio, overlap, a)
                  IN  /\ plan.unique[i][a][2] - plan.unique[i][a][1] <= M
                      /\ plan.overlap[i][a][2] - plan.overlap[i][a][1] <= M + 2 * overlap
            /\ Extent(plan.overlap[i]) <= size

\* chunk_ranges raised and handed no grid back
Rejected == plan.err \notin {"", "none"} /\ plan.unique = << >> /\ plan.overlap = << >>

\* C17: chunk_ranges raises and returns no grid whenever the overlap is
\* greater than some entry of min_sizes, and whenever the volume is to be
\* partitioned and the maximum unique size computed for some axis is smaller
\* than that axis's entry of min_sizes.
C17_RejectsUnsatisfiable ==
    plan.err # "none" =>
        /\ (\E a \in Axes : overlap > min_sizes[a]) => (Rejected /\ plan.err = "ValueError")
        /\ (/\ size < Prod3(source_shape)
            /\ \E a \in Axes : MaxUnique(size, aspect_ratio, overlap, a) < min_sizes[a])
              => Rejected

\* C17 witness: the overlap of 15 at min_sizes of 10 has been rejected
C17_Witness ==
    /\ overlap = 15
    /\ min_sizes = <<10, 10, 10>>
    /\ Rejected
    /\ plan.err = "ValueError"

\* no axis of a volume to be partitioned is a multiple of its maximum
\* unique size
NoAxisDividesEvenly ==
    size < Prod3(source_shape) =>
        \A a \in Axes : source_shape[a] % MaxUnique(size, aspect_ratio, overlap, a) # 0

C19_RejectedBeforeIO ==
    (pc = "raised" /\ error.site = "chunk_ranges" /\ error.kind = "ValueError") =>
        /\ \A i \in DOMAIN starts : starts[i] = 0
        /\ RootDir \notin fs
        /\ SourceFile \notin fs

\* the chunks of the grid along axis a: unique range u with overlap range o
AxisChunks(a) == { [u |-> plan.unique[i][a], o |-> plan.overlap[i][a]] : i \in Chunks }

\* C20: in every returned grid, on every axis, the part of a chunk's overlap
\* range below (above) its unique range lies inside the unique range of its
\* lower (upper) neighbour, and the overlap ranges of two adjacent chunks
\* meet only within overlap voxels on either side of their boundary; the
\* whole-volume return has no margins.
C20_MarginInsideNeighbours ==
    /\ Partitioned =>
          \A a \in Axes : \A c \in AxisChunks(a) :
              /\ c.o[1] < c.u[1] =>
                    \E n \in AxisChunks(a) : n.u[2] = c.u[1] /\ n.u[1] <= c.o[1]
              /\ c.o[2] > c.u[2] =>
                    \E n \in AxisChunks(a) : n.u[1] = c.u[2] /\ c.o[2] <= n.u[2]
              /\ \A n \in AxisChunks(a) :
                    n.u[1] = c.u[2] =>
                        /\ Max(c.o[1], n.o[1]) >= c.u[2] - overlap
                        /\ Min(c.o[2], n.o[2]) <= c.u[2] + overlap
    /\ (plan.err = "" /\ ~Partitioned) => plan.overlap = plan.unique

\* C20 witness: a chunk with a neighbour on either side along an axis whose
\* lower margin is the whole unique range of its lower neighbour
C20_Witness ==
    /\ Partitioned
    /\ overlap >= 1
    /\ \E a \in Axes : \E c, n \in AxisChunks(a) :
          /\ c.o[1] < c.u[1]
          /\ c.o[2] > c.u[2]
          /\ n.u[2] = c.u[1]
          /\ n.u[1] = c.o[1]
          /\ n.u[1] > 0

\* no chunk reports a detection: every result is the empty list, or a list
\* of property columns without entries
NoDetections ==
    \A i \in DOMAIN results :
        \A j \in DOMAIN results[i] : Len(results[i][j]) = 0

\* C21: when no chunk reports a detection, be every result the empty list
\* or a list of empty property columns, join_points does not raise and
\* returns the explicitly empty result without rows.
C21_EmptyMergeReturnsZeroRows ==
    (joined.err # "none" /\ Len(results) >= 1 /\ NoDetections) =>
        /\ joined.err = ""
        /\ joined.zero

\* a chunk task, join_points or jsonify_points has raised
RunFailed ==
    \/ AnyTaskFailed
    \/ joined.err \notin {"none", ""}
    \/ table.err \notin {"none", ""}

\* C22: the table is written to the sink only once every chunk task has
\* returned and join_points and jsonify_points have returned; in a run in
\* which a chunk task or the merge has failed the sink is never written.
C22_SinkOnlyAfterMerge ==
    /\ sink.written =>
          /\ \A i \in DOMAIN task : task[i].pc = "done"
          /\ Len(task) = Len(plan.overlap)
          /\ joined.err = ""
          /\ table.err = ""
          /\ pc \in {"returned", "raised"}
    /\ RunFailed => ~sink.written

\* C22 witness: a run of several chunks that returned a table of one
\* detection has written its sink
C22_Witness ==
    /\ pc = "returned"
    /\ sink.path # ""
    /\ sink.written
    /\ Len(task) >= 2
    /\ Len(table.res) > 0
    /\ Len(table.res[1][2]) = 1

\* the operator names of the entries of a flow, in order
FilterNames(f) == [k \in 1..Len(f) |-> f[k].filter]

\* the task of chunk i is past its operator chain
ChainDone(i) == task[i].pc \in {"measure", "cleanup", "done"}

\* the operators chunk i has run so far are the first entries of flow, in
\* order, the k-th given the image the k - 1 operators before it made of
\* the working copy
RanPrefixOf(i, f) ==
    /\ Len(task[i].ran) <= Len(f)
    /\ \A k \in 1..Len(task[i].ran) :
          /\ task[i].ran[k].filter = f[k].filter
          /\ task[i].ran[k].input = [j \in 1..(k - 1) |-> f[j].filter]

\* C23: every chunk task runs exactly the entries of flow, in flow order,
\* the first on the chunk's working copy and each later one on the output
\* of the one before; no pass of a task changes an entry of flow, so the
\* entries keep their 'filter' and 'save' keys and every chunk, however
\* many ran before it, runs the same chain.
C23_SameChainEveryChunk ==
    /\ [](\A i \in DOMAIN task :
            /\ RanPrefixOf(i, flow)
            /\ ChainDone(i) => Len(task[i].ran) = Len(flow)
            /\ task[i].err.kind # "KeyError")
    /\ [](flow \in Flows \cup ChainFlows)
    /\ [][flow' = flow]_vars

\* C23 witness: in a serial run of a flow of two entries the last chunk has
\* returned, having run both operators, the second on the output of the first
C23_Witness ==
    /\ processes = 1
    /\ Len(flow) = 2
    /\ Len(task) >= 2
    /\ task[Len(task)].pc = "done"
    /\ \A i \in DOMAIN task : Len(task[i].ran) = 2
    /\ task[Len(task)].ran[2].input = << flow[1].filter >>
    /\ task[Len(task)].ran[2].filter = flow[2].filter

\* C24: the operators of a chunk task write to the task's working copy and
\* to paths in the task's own subdirectory only: the raw copy handed to
\* label_props holds the source data of the overlap range, no path written
\* by a task lies outside its subdirectory (the copied source volume, in
\* the root, is written by no task), and no path is written by two tasks.
C24_OperatorsWriteOwnCopyOnly ==
    \A i \in DOMAIN task :
        /\ DOMAIN task[i].data # {} => task[i].data[rawFile] = << >>
        /\ \A n \in DOMAIN task[i].seen : task[i].seen[n].raw = << >>
        /\ \A f \in task[i].wrote : f.chunk = i /\ f # SourceFile
        /\ \A j \in DOMAIN task : j # i => task[i].wrote \cap task[j].wrote = {}

\* C24 witness: in a pool a task has measured its properties after both
\* operators of the flow changed its working copy, while another task,
\* still running, has written its own copies
C24_Witness ==
    /\ processes # 1
    /\ Len(flow) = 2
    /\ \E i, j \in DOMAIN task :
          /\ i # j
          /\ task[i].pc = "cleanup"
          /\ Len(task[i].seen) = 1
          /\ task[i].seen[1].labels = FilterNames(flow)
          /\ task[i].data[mmapFile] = FilterNames(flow)
          /\ Running(j)
          /\ ChunkFile(j, mmapFile) \in task[j].wrote
          /\ Len(task[j].ran) >= 1

\* the subdirectory and the two copies of the task of chunk i
OwnPaths(i) == {ChunkDir(i), ChunkFile(i, mmapFile), ChunkFile(i, rawFile)}

\* the task of chunk i works on its copies
AtWork(i) == task[i].pc \in {"filter", "save_check", "save_alloc", "save_write",
                             "measure", "cleanup"}

\* C25: every path a chunk task makes (working copy, raw copy, operator
\* scratch directories) lies in the task's own subdirectory of the root, no
\* two tasks have the same subdirectory, and the removal of a task's
\* subdirectory removes no path of another task: a task at work has its
\* subdirectory and its copies.
C25_OwnSubdirectoryPerChunk ==
    /\ [](\A i \in DOMAIN task :
            /\ \A f \in task[i].wrote : Under(f, ChunkDir(i)) /\ f.chunk # 0
            /\ \A j \in DOMAIN task : j # i => ChunkDir(i) # ChunkDir(j)
            /\ AtWork(i) => OwnPaths(i) \subseteq fs)
    /\ [][\A i \in DOMAIN task :
            (task[i].pc = "cleanup" /\ task'[i].pc = "done") =>
                /\ \A f \in fs \ fs' : f.chunk = i
                /\ \A j \in DOMAIN task : j # i => (task[j].wrote \cap fs) \subseteq fs']_vars

\* C25 witness: in a pool a task has returned and removed its subdirectory
\* with an operator's scratch directory in it, while another task is at work
C25_Witness ==
    /\ processes # 1
    /\ \E i, j \in DOMAIN task :
          /\ task[i].pc = "done"
          /\ \E f \in task[i].wrote : f \notin OwnPaths(i)
          /\ \A f \in fs : f.chunk # i
          /\ AtWork(j)
          /\ OwnPaths(j) \subseteq fs

\* C26: an operator whose required attribute is missing fails when its
\* attributes are assigned, before its run begins: when the RuntimeError for
\* the missing attribute is raised, run has not been called on the instance
\* and no scratch directory has been made for it.
C26_MissingAttributeFailsBeforeRun ==
    \A k \in DOMAIN im_filters :
        im_filters[k].err = "RuntimeError" =>
            /\ ~im_filters[k].began
            /\ im_filters[k].dir = "none"

\* the attributes a call of set_inputs with the mapping kwargs must leave
AfterSetInputs(attrs, kwargs) ==
    [a \in DOMAIN attrs |-> IF a \in DOMAIN kwargs THEN kwargs[a] ELSE attrs[a]]

\* C27: set_inputs assigns exactly the keys of its mapping that name an
\* attribute of the operator and leaves every other attribute as it was, so
\* calls accumulate; a key that names no attribute creates none and the call
\* returns normally.
C27_SetInputsAssignsExistingOnly ==
    /\ [](\A k \in DOMAIN im_filters :
             DOMAIN im_filters[k].attrs = DOMAIN Defaults(im_filters[k].cls.name))
    /\ [][\A k \in DOMAIN im_filters :
             (k \in DOMAIN im_filters' /\ im_filters'[k].last # im_filters[k].last) =>
                 /\ im_filters'[k].attrs =
                        AfterSetInputs(im_filters[k].attrs, im_filters'[k].last[1])
                 /\ im_filters'[k].err = im_filters[k].err
                 /\ im_filters'[k].began = im_filters[k].began]_vars

\* C27 witness: the operator of the filter tests; a first call set size (and
\* gave a key that names no attribute), a later call set only the input, and
\* the run that followed found the size and succeeded
C27_Witness ==
    \E k \in DOMAIN im_filters :
        /\ im_filters[k].cls = RollingClass
        /\ im_filters[k].last = << [input |-> "img", output |-> "img"] >>
        /\ im_filters[k].attrs.size = "5"
        /\ "radius" \notin DOMAIN im_filters[k].attrs
        /\ im_filters[k].changed
        /\ im_filters[k].err = ""

\* C30: every successful get_filter appends a new instance that has the
\* declared defaults of its class, whatever was assigned to the instances made
\* before, and leaves those as they are; set_inputs on an instance leaves
\* the registry as it is; get_filter raises ValueError exactly for a name that
\* is not registered, and makes no instance then; add_filter never removes or
\* replaces a registered class, so a name stands for one class at most.
C30_NewInstanceEveryCall ==
    /\ [](\A c, d \in filter_manager.filters : c.name = d.name => c = d)
    /\ [][/\ filter_manager.filters \subseteq filter_manager'.filters
          /\ im_filters' # im_filters => filter_manager'.filters = filter_manager.filters
          /\ Len(im_filters') > Len(im_filters) =>
                /\ filter_manager'.call.op = "get_filter"
                /\ filter_manager'.call.raised = ""
                /\ SubSeq(im_filters', 1, Len(im_filters)) = im_filters
                /\ im_filters'[Len(im_filters')].cls.name = filter_manager'.call.arg
                /\ im_filters'[Len(im_filters')].cls \in filter_manager.filters
                /\ im_filters'[Len(im_filters')].attrs = Defaults(filter_manager'.call.arg)
                /\ im_filters'[Len(im_filters')].last = << >>
          /\ (filter_manager'.call # filter_manager.call
                /\ filter_manager'.call.op = "get_filter") =>
                /\ filter_manager'.call.raised = "ValueError"
                       <=> ~Registered(filter_manager'.call.arg)
                /\ filter_manager'.call.raised = "ValueError" => im_filters' = im_filters
          /\ (filter_manager'.call # filter_manager.call
                /\ filter_manager'.call.op = "add_filter"
                /\ Registered(filter_manager'.call.arg)) =>
                /\ filter_manager'.call.raised = "ValueError"
                /\ filter_manager'.filters = filter_manager.filters]_vars

\* C30 witness: two instances of one operator; the first was given a size,
\* the second, made afterwards, has the defaults; the class of the same name
\* offered later was refused and the registered one is still in place
C30_Witness ==
    /\ Len(im_filters) = 2
    /\ im_filters[1].cls = RollingClass
    /\ im_filters[2].cls = RollingClass
    /\ im_filters[1].attrs.size = "3"
    /\ im_filters[2].attrs = Defaults("RollingBackgroundSubtract")
    /\ RollingClass \in filter_manager.filters
    /\ OtherRolling \notin filter_manager.filters
    /\ filter_manager.call = [op |-> "add_filter", arg |-> "RollingBackgroundSubtract",
                              raised |-> "ValueError"]

\* the column names of a result table, in insertion order
ColumnNames(res) == [j \in 1..Len(res) |-> res[j][1]]

\* C28: a run that was asked for at least one property and whose chunks were
\* all processed yields the table: neither the merge nor jsonify_points
\* raises, and the table has the columns z, y, x followed by one column for
\* every requested property other than 'centroid', which process_flow has
\* put first.
C28_NonEmptyRequestYieldsTable ==
    Len(output_properties) > 0 =>
        /\ error.site \notin {"join_points", "jsonify_points"}
        /\ table.err = "" =>
              /\ output_properties[1] = "centroid"
              /\ ColumnNames(table.res) = <<"z", "y", "x">> \o Tail(output_properties)

\* what lines 121-138 give for axis a of the planned volume
AxisOutcome(a) ==
    AxisSizes(source_shape[a], MaxUnique(size, aspect_ratio, overlap, a), min_sizes[a])

\* C29: when the volume is larger than the budget, no axis is refused for
\* its minimum size, and the length L of an axis is an exact multiple of the
\* maximum unique size M of that axis, chunk_ranges returns normally and the
\* axis is cut into the L / M contiguous pieces of M voxels.
C29_EvenDivisionSplits ==
    (/\ plan.err # "none"
     /\ size < Prod3(source_shape)
     /\ ~OverlapTooLarge(overlap, min_sizes)
     /\ \A b \in Axes : AxisOutcome(b).err \notin {"ValueError", "ZeroDivisionError"}) =>
        \A a \in Axes :
            LET L == source_shape[a]
                M == MaxUnique(size, aspect_ratio, overlap, a)
            IN  L % M = 0 =>
                    /\ plan.err = ""
                    /\ AxisRanges(plan.unique, a) =
                           { << (k - 1) * M, k * M >> : k \in 1..(L \div M) }

====
